---- MODULE Spec2Model ----
(***************************************************************************)
(* Model of heredity.py: exact inference over a small genetic pedigree.    *)
(*                                                                         *)
(* Numbers.  The program computes with Python floats.  The model computes  *)
(* with exact rationals: a number is a record [mant, exp, over] that       *)
(* stands for  mant / (10^exp * over), where mant and over are arbitrary   *)
(* precision naturals (little-endian sequences of limbs in base Base,      *)
(* without leading zero limbs, <<>> being zero).  Every literal of the     *)
(* program is a decimal, sums and products of decimals are decimals, and   *)
(* `over' only becomes different from 1 through the divisions of           *)
(* normalize.  Rounding of floats is not modelled.                         *)
(*                                                                         *)
(* Names.  Individuals are named 1..n; None is 0.  A trait observation is  *)
(* one of the strings "True", "False", "None".  Iterating over a set or a  *)
(* dict visits the names in ascending order.                               *)
(***************************************************************************)
EXTENDS Integers, Sequences, FiniteSets, TLC

\* ------------------------------------------------------------------ bounds
\* Largest number of individuals in a pedigree of the main pipeline.
MaxPeople == 3

\* normalize on arbitrary tables: the number of individuals.
NormPeople == 1

\* update on arbitrary hypotheses: the number of individuals and of calls.
UpdPeople == 1
MaxUpdates == 2

\* Reordered accumulation: how many hypotheses ahead of the first pending one
\* may be applied, and how many hypotheses the first of two partial tables
\* gets at most.
Window == 2
MaxFirstPart == 1

\* ------------------------------------------------- arbitrary precision nats
\* Limb base of the naturals; the numbers are the same in every base from 10
\* up to 10^4.
Base == 1000

RECURSIVE BigOf(_)
\* The natural n (n < 2^31) as a sequence of limbs.
BigOf(n) == IF n = 0 THEN <<>> ELSE <<n % Base>> \o BigOf(n \div Base)

RECURSIVE BAddC(_, _, _)
\* a + b + c for a carry c in 0..1.
BAddC(a, b, c) ==
    IF a = <<>> /\ b = <<>> THEN BigOf(c)
    ELSE LET x == IF a = <<>> THEN 0 ELSE Head(a)
             y == IF b = <<>> THEN 0 ELSE Head(b)
             s == x + y + c
         IN  <<s % Base>> \o BAddC(IF a = <<>> THEN <<>> ELSE Tail(a),
                                    IF b = <<>> THEN <<>> ELSE Tail(b),
                                    s \div Base)

BAdd(a, b) == IF a = <<>> THEN b ELSE IF b = <<>> THEN a ELSE BAddC(a, b, 0)

RECURSIVE BStrip(_)
\* Drop the leading (most significant) zero limbs.
BStrip(a) ==
    IF a = <<>> THEN <<>>
    ELSE IF a[Len(a)] = 0 THEN BStrip(SubSeq(a, 1, Len(a) - 1)) ELSE a

RECURSIVE BSubB(_, _, _)
\* a - b - c for a >= b + c and a borrow c in 0..1, leading zeros kept.
BSubB(a, b, c) ==
    IF a = <<>> THEN <<>>
    ELSE LET y == IF b = <<>> THEN 0 ELSE Head(b)
             d == Head(a) - y - c
         IN  <<IF d < 0 THEN d + Base ELSE d>> \o
             BSubB(Tail(a), IF b = <<>> THEN <<>> ELSE Tail(b),
                   IF d < 0 THEN 1 ELSE 0)

BSub(a, b) == BStrip(BSubB(a, b, 0))

RECURSIVE BMulC(_, _, _)
\* a * k + c for a one-limb factor k.
BMulC(a, k, c) ==
    IF a = <<>> THEN BigOf(c)
    ELSE LET s == Head(a) * k + c
         IN  <<s % Base>> \o BMulC(Tail(a), k, s \div Base)

BMulSmall(a, k) == IF k = 0 \/ a = <<>> THEN <<>> ELSE BMulC(a, k, 0)

RECURSIVE BMul(_, _)
BMul(a, b) ==
    IF a = <<>> \/ b = <<>> THEN <<>>
    ELSE LET rest == BMul(a, Tail(b))
         IN  BAdd(BMulSmall(a, Head(b)),
                  IF rest = <<>> THEN <<>> ELSE <<0>> \o rest)

RECURSIVE BPow10(_, _)
\* a * 10^e.
BPow10(a, e) == IF e = 0 THEN a ELSE BPow10(BMulSmall(a, 10), e - 1)

BOne == <<1>>

\* ------------------------------------------------------------------ numbers
\* The decimal literal m / 10^e.
Dec(m, e) == [mant |-> BigOf(m), exp |-> e, over |-> BOne]

Zero == Dec(0, 0)
One == Dec(1, 0)

Max(i, j) == IF i >= j THEN i ELSE j

\* x == 0
IsZero(x) == x.mant = <<>>

\* x + y
RAdd(x, y) ==
    LET e  == Max(x.exp, y.exp)
        mx == BPow10(x.mant, e - x.exp)
        my == BPow10(y.mant, e - y.exp)
    IN  IF x.over = y.over
        THEN [mant |-> BAdd(mx, my), exp |-> e, over |-> x.over]
        ELSE [mant |-> BAdd(BMul(mx, y.over), BMul(my, x.over)),
              exp |-> e, over |-> BMul(x.over, y.over)]

\* 1 - x, for 0 <= x <= 1 and x a decimal
OneMinus(x) ==
    [mant |-> BSub(BPow10(BOne, x.exp), x.mant), exp |-> x.exp, over |-> x.over]

\* x * y
RMul(x, y) ==
    [mant |-> BMul(x.mant, y.mant), exp |-> x.exp + y.exp,
     over |-> BMul(x.over, y.over)]

\* x / y, for y # 0
RDiv(x, y) ==
    [mant |-> BMul(BPow10(x.mant, y.exp), y.over), exp |-> x.exp,
     over |-> BMul(x.over, y.mant)]

\* x == y, by cross multiplication
REq(x, y) ==
    BMul(BPow10(x.mant, y.exp), y.over) = BMul(BPow10(y.mant, x.exp), x.over)

\* ------------------------------------------------------- probability model
None == 0

\* The module-level dict PROBS as the program text sets it.
ReferenceModel ==
    [gene  |-> (2 :> Dec(1, 2)) @@ (1 :> Dec(3, 2)) @@ (0 :> Dec(96, 2)),
     trait |-> (2 :> ((TRUE :> Dec(65, 2)) @@ (FALSE :> Dec(35, 2)))) @@
               (1 :> ((TRUE :> Dec(56, 2)) @@ (FALSE :> Dec(44, 2)))) @@
               (0 :> ((TRUE :> Dec(1, 2))  @@ (FALSE :> Dec(99, 2)))),
     mutation |-> Dec(1, 2)]

\* The global PROBS, which every function of the program reads and none
\* assigns.
VARIABLE PROBS

\* The literal 0.5 of joint_probability.
Half == Dec(5, 1)

\* ------------------------------------------------------------------ powerset
RECURSIVE ListOf(_)
\* list(s): the elements of a set of names, in ascending order.
ListOf(s) ==
    IF s = {} THEN <<>>
    ELSE LET m == CHOOSE x \in s : \A y \in s : x <= y
         IN  <<m>> \o ListOf(s \ {m})

RECURSIVE combinations(_, _)
\* itertools.combinations(l, r), each combination as a set, in the order of
\* the positions in l.
combinations(l, r) ==
    IF r = 0 THEN << {} >>
    ELSE IF Len(l) < r THEN <<>>
    ELSE LET with == combinations(Tail(l), r - 1)
         IN  [i \in 1..Len(with) |-> {Head(l)} \cup with[i]] \o
             combinations(Tail(l), r)

RECURSIVE chain(_, _)
\* chain.from_iterable(combinations(l, r) for r in range(from, len(l) + 1))
chain(l, from) ==
    IF from > Len(l) THEN <<>>
    ELSE combinations(l, from) \o chain(l, from + 1)

\* The names of the largest pedigree of the model.
AllNames == 1..Max(MaxPeople, Max(NormPeople, UpdPeople))

\* powerset(s) for every set s of names, computed once.
AllPowersets == [s \in SUBSET AllNames |-> chain(ListOf(s), 0)]

\* powerset with range(len(s)) for range(len(s) + 1): the full set is missing.
powerset_NoFullSet(s) == SubSeq(AllPowersets[s], 1, Len(AllPowersets[s]) - 1)

powerset(s) == AllPowersets[s]

\* ------------------------------------------------------- joint_probability
\* The gene count joint_probability parses for every person.
GenesOf(people, one_gene, two_genes) ==
    [person \in DOMAIN people |->
        IF person \in one_gene THEN 1
        ELSE IF person \in two_genes THEN 2 ELSE 0]

\* The trait value joint_probability parses for every person.
TraitOf(people, have_trait) ==
    [person \in DOMAIN people |-> person \in have_trait]

NoParents(people, person) ==
    people[person].mother = None /\ people[person].father = None

\* genes[people[person][parent]] raises KeyError for some person: the person
\* takes the branch for people with parents, and its father or its mother is
\* not a key of genes.
RaisesKeyError(people) ==
    \E person \in DOMAIN people :
        /\ ~NoParents(people, person)
        /\ \/ people[person].father \notin DOMAIN people
           \/ people[person].mother \notin DOMAIN people

\* p_parents with the last two branches exchanged: a parent without the gene
\* passes it on with probability 1 - mutation.
PParent_NoCopy(parent_genes) ==
    IF parent_genes = 1
    THEN RAdd(RMul(Half, OneMinus(PROBS.mutation)), RMul(Half, PROBS.mutation))
    ELSE IF parent_genes = 2 THEN PROBS.mutation
    ELSE OneMinus(PROBS.mutation)

\* p_parents[parent], from the parent's gene count.
PParent(parent_genes) ==
    IF parent_genes = 1
    THEN RAdd(RMul(Half, OneMinus(PROBS.mutation)), RMul(Half, PROBS.mutation))
    ELSE IF parent_genes = 2 THEN OneMinus(PROBS.mutation)
    ELSE PROBS.mutation

\* p_gene with the one-copy case reduced to "from the father, not from the
\* mother".
PGene_FatherOnly(people, genes, person) ==
    IF NoParents(people, person) THEN PROBS.gene[genes[person]]
    ELSE LET father == PParent(genes[people[person].father])
             mother == PParent(genes[people[person].mother])
         IN  IF genes[person] = 1 THEN RMul(father, OneMinus(mother))
             ELSE IF genes[person] = 2 THEN RMul(father, mother)
             ELSE RMul(OneMinus(father), OneMinus(mother))

\* p_gene of one person.
PGene(people, genes, person) ==
    IF NoParents(people, person) THEN PROBS.gene[genes[person]]
    ELSE LET father == PParent(genes[people[person].father])
             mother == PParent(genes[people[person].mother])
         IN  IF genes[person] = 1
             THEN RAdd(RMul(father, OneMinus(mother)),
                       RMul(mother, OneMinus(father)))
             ELSE IF genes[person] = 2 THEN RMul(father, mother)
             ELSE RMul(OneMinus(father), OneMinus(mother))

\* p_list[person]
PPerson(people, genes, trait, person) ==
    RMul(PGene(people, genes, person), PROBS.trait[genes[person]][trait[person]])

RECURSIVE ProductFrom(_, _, _, _)
\* joint_p after the persons l (in order) have been multiplied into acc.
ProductFrom(acc, l, people, h) ==
    IF l = <<>> THEN acc
    ELSE ProductFrom(RMul(acc, PPerson(people, h.genes, h.trait, Head(l))),
                     Tail(l), people, h)

\* joint_probability for pedigrees on which it raises no KeyError.
joint_probability(people, one_gene, two_genes, have_trait) ==
    ProductFrom(One, ListOf(DOMAIN people), people,
                [genes |-> GenesOf(people, one_gene, two_genes),
                 trait |-> TraitOf(people, have_trait)])

\* ------------------------------------------------------- variants of update
\* update without the else of the trait: the False bucket gets p always.
update_NoElse(probabilities, one_gene, two_genes, have_trait, p) ==
    [person \in DOMAIN probabilities |->
        LET g == IF person \in one_gene THEN 1
                 ELSE IF person \in two_genes THEN 2 ELSE 0
            old == probabilities[person]
        IN  [gene  |-> [old.gene EXCEPT ![g] = RAdd(@, p)],
             trait |-> [b \in BOOLEAN |->
                          IF b = FALSE \/ person \in have_trait
                          THEN RAdd(old.trait[b], p) ELSE old.trait[b]]]]

\* update with the buckets of one and two copies exchanged.
update_SwappedCounts(probabilities, one_gene, two_genes, have_trait, p) ==
    [person \in DOMAIN probabilities |->
        LET g == IF person \in one_gene THEN 2
                 ELSE IF person \in two_genes THEN 1 ELSE 0
            t == person \in have_trait
            old == probabilities[person]
        IN  [gene  |-> [old.gene EXCEPT ![g] = RAdd(@, p)],
             trait |-> [old.trait EXCEPT ![t] = RAdd(@, p)]]]

\* update with `if' for `elif': somebody in one_gene and in two_genes gets p
\* in both buckets.
update_NoElif(probabilities, one_gene, two_genes, have_trait, p) ==
    [person \in DOMAIN probabilities |->
        LET t == person \in have_trait
            old == probabilities[person]
        IN  [gene  |-> [k \in 0..2 |->
                          IF \/ k = 1 /\ person \in one_gene
                             \/ k = 2 /\ person \in two_genes
                             \/ k = 0 /\ person \notin two_genes
                          THEN RAdd(old.gene[k], p) ELSE old.gene[k]],
             trait |-> [old.trait EXCEPT ![t] = RAdd(@, p)]]]

\* update with `=' for `+=' on the gene buckets.
update_Assign(probabilities, one_gene, two_genes, have_trait, p) ==
    [person \in DOMAIN probabilities |->
        LET g == IF person \in one_gene THEN 1
                 ELSE IF person \in two_genes THEN 2 ELSE 0
            t == person \in have_trait
            old == probabilities[person]
        IN  [gene  |-> [old.gene EXCEPT ![g] = p],
             trait |-> [old.trait EXCEPT ![t] = RAdd(@, p)]]]

\* -------------------------------------------------------------------- update
update(probabilities, one_gene, two_genes, have_trait, p) ==
    [person \in DOMAIN probabilities |->
        LET g == IF person \in one_gene THEN 1
                 ELSE IF person \in two_genes THEN 2 ELSE 0
            t == person \in have_trait
            old == probabilities[person]
        IN  [gene  |-> [old.gene EXCEPT ![g] = RAdd(@, p)],
             trait |-> [old.trait EXCEPT ![t] = RAdd(@, p)]]]

\* ----------------------------------------------------------------- normalize
\* sum(probabilities[person]['gene'].values()): keys in the order 2, 1, 0.
GeneSum(d) == RAdd(RAdd(RAdd(Zero, d.gene[2]), d.gene[1]), d.gene[0])

\* sum(probabilities[person]['trait'].values()): keys in the order True, False.
TraitSum(d) == RAdd(RAdd(Zero, d.trait[TRUE]), d.trait[FALSE])

normalize(probabilities) ==
    [person \in DOMAIN probabilities |->
        LET old == probabilities[person]
            gene_sum == GeneSum(old)
            gene == [k \in 0..2 |-> RDiv(old.gene[k], gene_sum)]
            trait_sum == TraitSum(old)
        IN  IF IsZero(gene_sum) THEN old
            ELSE IF IsZero(trait_sum) THEN [gene |-> gene, trait |-> old.trait]
            ELSE [gene  |-> gene,
                  trait |-> [b \in BOOLEAN |-> RDiv(old.trait[b], gene_sum)]]]

\* ---------------------------------------------------------------------- main
VARIABLES
    people,         \* the pedigree returned by load_data
    probabilities,  \* the posterior table
    pc,             \* position of main
    ti,             \* index of have_trait in powerset(names)
    gi,             \* index of one_gene in powerset(names)
    gj,             \* index of two_genes in powerset(names - one_gene)
    hyp,            \* the last hypothesis handed to joint_probability
    ncalls,         \* number of calls of joint_probability
    nupdates,       \* number of calls of update
    evaluated,      \* codes of the hypotheses handed to joint_probability
    repeated,       \* some hypothesis was handed to joint_probability twice
    total,          \* sum of the values passed to update
    printed,        \* the report has been printed
    p,              \* the last joint probability
    ahead,          \* reordered accumulation: positions applied out of turn
    partial,        \* reordered accumulation: the table of the first part
    inorder         \* reordered accumulation: the table in the order of main

vars == <<PROBS, people, probabilities, pc, ti, gi, gj, hyp, ncalls, nupdates,
          evaluated, repeated, total, printed, p, ahead, partial, inorder>>

names == DOMAIN people

\* The table main builds before the enumeration.
EmptyTable(ps) ==
    [person \in ps |->
        [gene  |-> [k \in 0..2 |-> Zero],
         trait |-> [b \in BOOLEAN |-> Zero]]]

PyBool(b) == IF b THEN "True" ELSE "False"

\* fails_evidence with the truth value of the observation for `is not None':
\* an observed False counts as unknown.
fails_evidence_Truthy(ppl, have_trait) ==
    \E person \in DOMAIN ppl :
        /\ ppl[person].trait = "True"
        /\ ppl[person].trait # PyBool(person \in have_trait)

fails_evidence(ppl, have_trait) ==
    \E person \in DOMAIN ppl :
        /\ ppl[person].trait # "None"
        /\ ppl[person].trait # PyBool(person \in have_trait)

RECURSIVE Pow(_, _)
Pow(b, e) == IF e = 0 THEN 1 ELSE b * Pow(b, e - 1)

RECURSIVE SumOver(_, _)
SumOver(s, f) ==
    IF s = {} THEN 0
    ELSE LET x == CHOOSE y \in s : TRUE IN f[x] + SumOver(s \ {x}, f)

\* An injective code of a hypothesis over the names ps.
HypCode(ps, h) ==
    LET g == [person \in ps |->
                 (IF person \in h.one_gene THEN 1
                  ELSE IF person \in h.two_genes THEN 2 ELSE 0)
                 * Pow(3, person - 1)]
        t == [person \in ps |->
                 (IF person \in h.have_trait THEN 1 ELSE 0) * Pow(2, person - 1)]
    IN  SumOver(ps, g) + Pow(3, Cardinality(ps)) * SumOver(ps, t)

NoHyp == [one_gene |-> {}, two_genes |-> {}, have_trait |-> {}]

\* ------------------------------------------------------------ the pedigrees
Traits == {"True", "False", "None"}

\* A name that is no key of a pedigree of n individuals.
Stranger(n) == n + 1

\* The recorded <<mother, father>> of individual i in a well-formed
\* pedigree: none, or the two individuals before it.
WellFormedParents(i) ==
    {<<None, None>>} \cup (IF i >= 3 THEN {<<i - 2, i - 1>>} ELSE {})

\* The <<mother, father>> of a malformed record: half-recorded, or naming
\* somebody who is not in the pedigree.
MalformedParents(n) ==
    {<<None, 1>>, <<1, None>>, <<Stranger(n), 1>>, <<1, Stranger(n)>>}

WellFormed(ppl) ==
    \A i \in DOMAIN ppl : <<ppl[i].mother, ppl[i].father>> \in WellFormedParents(i)

\* The pedigrees of n individuals the model runs on: well-formed ones, and
\* those with exactly one malformed record.
Pedigrees(n) ==
    LET Pairs == UNION {WellFormedParents(i) : i \in 1..n} \cup MalformedParents(n)
        Shapes == {par \in [1..n -> Pairs] :
                     /\ \A i \in 1..n :
                          par[i] \in WellFormedParents(i) \cup MalformedParents(n)
                     /\ Cardinality({i \in 1..n : par[i] \in MalformedParents(n)}) <= 1}
    IN  {[i \in 1..n |-> [name |-> i, mother |-> par[i][1],
                          father |-> par[i][2], trait |-> tr[i]]] :
            par \in Shapes, tr \in [1..n -> Traits]}

\* The state of main after load_data and the construction of the table.
\* Nothing has been evaluated yet.
NothingYet(ppl) ==
    /\ people = ppl
    /\ gi = 1
    /\ gj = 1
    /\ hyp = NoHyp
    /\ ncalls = 0
    /\ nupdates = 0
    /\ evaluated = {}
    /\ repeated = FALSE
    /\ total = Zero
    /\ printed = FALSE
    /\ p = Zero
    /\ ahead = {}
    /\ partial = EmptyTable(DOMAIN ppl)
    /\ inorder = EmptyTable(DOMAIN ppl)

Start(ppl) ==
    /\ NothingYet(ppl)
    /\ probabilities = EmptyTable(DOMAIN ppl)
    /\ ti = 1

Init ==
    \E n \in 1..MaxPeople : \E ppl \in Pedigrees(n) :
        /\ PROBS = ReferenceModel
        /\ Start(ppl)
        /\ pc = "for have_trait"

\* The hypothesis the three loops of main are at.
Current ==
    LET one_gene == powerset(names)[gi]
    IN  [one_gene   |-> one_gene,
         two_genes  |-> powerset(names \ one_gene)[gj],
         have_trait |-> powerset(names)[ti]]

\* for have_trait in powerset(names): ... if fails_evidence: continue
Continue ==
    /\ pc = "for have_trait"
    /\ ti <= Len(powerset(names))
    /\ fails_evidence(people, powerset(names)[ti])
    /\ ti' = ti + 1
    /\ UNCHANGED <<PROBS, people, p, ahead, partial, inorder, probabilities, pc, gi, gj, hyp, ncalls, nupdates,
                   evaluated, repeated, total, printed>>

\* The trait set agrees with the evidence: main enters the two gene loops.
EnterGeneLoops ==
    /\ pc = "for have_trait"
    /\ ti <= Len(powerset(names))
    /\ ~fails_evidence(people, powerset(names)[ti])
    /\ pc' = "for two_genes"
    /\ gi' = 1
    /\ gj' = 1
    /\ UNCHANGED <<PROBS, people, p, ahead, partial, inorder, probabilities, ti, hyp, ncalls, nupdates,
                   evaluated, repeated, total, printed>>

\* The bookkeeping of a call of joint_probability.
Called(h) ==
    /\ hyp' = h
    /\ ncalls' = ncalls + 1
    /\ evaluated' = evaluated \cup {HypCode(names, h)}
    /\ repeated' = (repeated \/ HypCode(names, h) \in evaluated)

\* The loops of main move to the next hypothesis.
Advance ==
    IF gj < Len(powerset(names \ powerset(names)[gi]))
    THEN gj' = gj + 1 /\ UNCHANGED <<gi, ti, pc>>
    ELSE IF gi < Len(powerset(names))
    THEN gi' = gi + 1 /\ gj' = 1 /\ UNCHANGED <<ti, pc>>
    ELSE ti' = ti + 1 /\ pc' = "for have_trait" /\ UNCHANGED <<gi, gj>>

\* p = joint_probability(...); update(probabilities, ..., p)
Evaluate ==
    /\ pc = "for two_genes"
    /\ ~RaisesKeyError(people)
    /\ LET h == Current
       IN  /\ Called(h)
           /\ p' = joint_probability(people, h.one_gene, h.two_genes, h.have_trait)
           /\ probabilities' =
                  update(probabilities, h.one_gene, h.two_genes, h.have_trait, p')
           /\ nupdates' = nupdates + 1
           /\ total' = RAdd(total, p')
    /\ Advance
    /\ UNCHANGED <<PROBS, people, ahead, partial, inorder, printed>>

\* The KeyError caught, and the hypothesis counted with probability 0.
EvaluateRaises_Swallowed ==
    /\ pc = "for two_genes"
    /\ RaisesKeyError(people)
    /\ LET h == Current
       IN  /\ Called(h)
           /\ p' = Zero
           /\ probabilities' =
                  update(probabilities, h.one_gene, h.two_genes, h.have_trait, p')
           /\ nupdates' = nupdates + 1
           /\ total' = RAdd(total, p')
    /\ Advance
    /\ UNCHANGED <<PROBS, people, ahead, partial, inorder, printed>>

\* joint_probability raises KeyError, which nothing catches.
EvaluateRaises ==
    /\ pc = "for two_genes"
    /\ RaisesKeyError(people)
    /\ Called(Current)
    /\ pc' = "KeyError"
    /\ UNCHANGED <<PROBS, people, p, ahead, partial, inorder, probabilities, ti, gi, gj, nupdates, total, printed>>

\* normalize(probabilities), after the last trait set.
Normalize ==
    /\ pc = "for have_trait"
    /\ ti > Len(powerset(names))
    /\ probabilities' = normalize(probabilities)
    /\ pc' = "print"
    /\ UNCHANGED <<PROBS, people, p, ahead, partial, inorder, ti, gi, gj, hyp, ncalls, nupdates, evaluated,
                   repeated, total, printed>>

\* The report.
Report ==
    /\ pc = "print"
    /\ printed' = TRUE
    /\ pc' = "done"
    /\ UNCHANGED <<PROBS, people, p, ahead, partial, inorder, probabilities, ti, gi, gj, hyp, ncalls, nupdates,
                   evaluated, repeated, total>>

Next ==
    \/ Continue
    \/ EnterGeneLoops
    \/ Evaluate
    \/ EvaluateRaises
    \/ Normalize
    \/ Report

Spec == Init /\ [][Next]_vars

\* ------------------------------------------------- properties of the pipeline
\* normalize has run.
Finished == pc \in {"print", "done"}

Unknown == {person \in names : people[person].trait = "None"}

\* C1: after enumeration, accumulation and normalize, the gene-count
\* distribution and the trait distribution of every individual each sum to
\* 1, unless the accumulated mass was zero.
C1_SumToOne ==
    Finished =>
        \A person \in names :
            \/ IsZero(total)
            \/ /\ REq(GeneSum(probabilities[person]), One)
               /\ REq(TraitSum(probabilities[person]), One)

C1_Witness ==
    /\ pc = "done"
    /\ Cardinality(names) = 3
    /\ people[3].mother = 1
    /\ people[1].trait = "True"
    /\ people[3].trait = "None"
    /\ ~IsZero(total)
    /\ REq(TraitSum(probabilities[3]), One)

\* The trait value of a person in the hypothesis with code c.
TraitBit(c, person) ==
    (c \div (Pow(3, Cardinality(names)) * Pow(2, person - 1))) % 2

\* C2: every hypothesis handed to joint_probability has the observed-true
\* individuals in have_trait and the observed-false ones out of it; over the
\* whole enumeration an individual of unknown trait is both in and out.
C2_EvidenceFiltering ==
    /\ ncalls > 0 =>
         \A person \in names :
            /\ people[person].trait = "True" => person \in hyp.have_trait
            /\ people[person].trait = "False" => person \notin hyp.have_trait
    /\ Finished =>
         \A person \in Unknown :
            /\ \E c \in evaluated : TraitBit(c, person) = 1
            /\ \E c \in evaluated : TraitBit(c, person) = 0

C2_Witness ==
    /\ pc = "done"
    /\ \E a, b, c \in names :
        /\ people[a].trait = "True"
        /\ people[b].trait = "False"
        /\ people[c].trait = "None"

\* The trait sets that agree with the observations.
ConsistentTraitSets ==
    {T \in SUBSET names :
        \A person \in names :
            /\ people[person].trait = "True" => person \in T
            /\ people[person].trait = "False" => person \notin T}

\* The codes of all hypotheses: a gene count for everybody, and a trait set
\* that agrees with the observations.
ConsistentCodes ==
    {HypCode(names, [one_gene   |-> {person \in names : g[person] = 1},
                     two_genes  |-> {person \in names : g[person] = 2},
                     have_trait |-> T]) :
        g \in [names -> 0..2], T \in ConsistentTraitSets}

NumHypotheses == Pow(3, Cardinality(names)) * Pow(2, Cardinality(Unknown))

\* C3: every gene-count assignment, with every trait set that agrees with
\* the observations, is handed to joint_probability exactly once, one_gene
\* and two_genes being disjoint; 3^n * 2^u hypotheses in all, after which
\* the enumeration is over: main's progress is bounded and every step adds
\* to it.
C3_EachOnce ==
    /\ hyp.one_gene \cap hyp.two_genes = {}
    /\ ~repeated
    /\ WellFormed(people) =>
        /\ ncalls = nupdates
        /\ ncalls <= NumHypotheses
        /\ Cardinality(evaluated) = ncalls
        /\ Finished => (ncalls = NumHypotheses /\ evaluated = ConsistentCodes)

\* How far main has come; bounded, and larger after every step.
Rank ==
    2 * ti + ncalls
    + (IF pc \in {"for two_genes", "print", "KeyError"} THEN 1 ELSE 0)
    + (IF pc = "done" THEN 2 ELSE 0)

C3_ExactEnumeration ==
    /\ []C3_EachOnce
    /\ [](Rank <= 2 * (Len(powerset(names)) + 1) + NumHypotheses + 2)
    /\ [][Rank' > Rank]_vars

C3_Witness ==
    /\ pc = "done"
    /\ Cardinality(names) = 3
    /\ Cardinality(Unknown) = 2
    /\ ncalls = 108

\* The pedigree of two parentless parents and their child, no trait observed.
IsFamilyOfThree ==
    /\ names = 1..3
    /\ NoParents(people, 1)
    /\ NoParents(people, 2)
    /\ {people[3].mother, people[3].father} = {1, 2}
    /\ Unknown = names

\* The probabilities of the model are well-formed.
ModelSumsToOne ==
    /\ REq(RAdd(RAdd(PROBS.gene[0], PROBS.gene[1]), PROBS.gene[2]), One)
    /\ \A k \in 0..2 : REq(RAdd(PROBS.trait[k][TRUE], PROBS.trait[k][FALSE]), One)

\* C4: on the family of three with no observation, the joint probabilities
\* of all enumerated hypotheses sum to exactly 1.
C4_TotalIsOne ==
    (IsFamilyOfThree /\ ModelSumsToOne /\ Finished) => REq(total, One)

C4_Witness ==
    /\ IsFamilyOfThree
    /\ pc = "done"
    /\ ncalls = 216
    /\ PROBS # ReferenceModel
    /\ REq(total, One)

Children(person) ==
    {c \in names : people[c].mother = person \/ people[c].father = person}

RECURSIVE Descendants(_)
Descendants(person) ==
    Children(person) \cup UNION {Descendants(c) : c \in Children(person)}

MarginalIsPrior(person) ==
    \A k \in 0..2 : REq(probabilities[person].gene[k], PROBS.gene[k])

\* C5 as stated: the normalized gene-count distribution of every individual
\* without parents and without observed trait is the gene prior.
C5_Original ==
    (Finished /\ WellFormed(people)) =>
        \A person \in Unknown :
            NoParents(people, person) => MarginalIsPrior(person)

\* C5, amended: the normalized gene-count distribution of an individual
\* without parents and without observed trait is the gene prior, provided no
\* descendant of the individual has an observed trait.
C5_PriorWithoutEvidenceBelow ==
    (Finished /\ WellFormed(people)) =>
        \A person \in Unknown :
            (/\ NoParents(people, person)
             /\ Descendants(person) \cap Unknown = Descendants(person))
            => MarginalIsPrior(person)

C5_Witness ==
    /\ pc = "done"
    /\ Cardinality(names) = 3
    /\ people[3].mother = 1
    /\ people[1].trait = "None"
    /\ people[2].trait = "True"
    /\ people[3].trait = "None"
    /\ MarginalIsPrior(1)
    /\ ~MarginalIsPrior(2)

\* C6: in a hypothesis handed to joint_probability, the gene factor of a child
\* whose father and mother both have no copy is (1-m)^2, 2m(1-m), m^2 for 0,
\* 1, 2 copies of the child, m being the mutation rate; the three sum to 1.
C6_ChildOfTwoZeroParents ==
    (ncalls > 0 /\ ~RaisesKeyError(people)) =>
        LET genes == GenesOf(people, hyp.one_gene, hyp.two_genes)
            m == PROBS.mutation
            expected == <<RMul(OneMinus(m), OneMinus(m)),
                          RMul(Dec(2, 0), RMul(m, OneMinus(m))),
                          RMul(m, m)>>
        IN  \A person \in names :
                (/\ ~NoParents(people, person)
                 /\ genes[people[person].father] = 0
                 /\ genes[people[person].mother] = 0)
                => /\ REq(PGene(people, genes, person), expected[genes[person] + 1])
                   /\ REq(RAdd(RAdd(
                            PGene(people, [genes EXCEPT ![person] = 0], person),
                            PGene(people, [genes EXCEPT ![person] = 1], person)),
                            PGene(people, [genes EXCEPT ![person] = 2], person)),
                          One)

C6_Witness ==
    /\ ncalls > 0
    /\ Cardinality(names) = 3
    /\ people[3].mother = 1
    /\ people[3].father = 2
    /\ hyp.one_gene = {3}
    /\ hyp.two_genes = {}
    /\ REq(PGene(people, GenesOf(people, hyp.one_gene, hyp.two_genes), 3),
           Dec(198, 4))

Models ==
    {[gene |-> g, trait |-> t, mutation |-> m] :
        g \in {ReferenceModel.gene,
               (2 :> Dec(2, 1)) @@ (1 :> Dec(3, 1)) @@ (0 :> Dec(5, 1))},
        t \in {ReferenceModel.trait,
               (2 :> ((TRUE :> Dec(1, 0)) @@ (FALSE :> Dec(0, 0)))) @@
               (1 :> ((TRUE :> Dec(5, 1)) @@ (FALSE :> Dec(5, 1)))) @@
               (0 :> ((TRUE :> Dec(25, 2)) @@ (FALSE :> Dec(75, 2))))},
        m \in {Dec(1, 2), Dec(2, 1), Dec(0, 0)}}

\* main on the well-formed pedigrees of three, under each of the models.
SumInit ==
    \E ppl \in Pedigrees(3) :
        /\ WellFormed(ppl)
        /\ \A i \in DOMAIN ppl : ppl[i].trait = "None"
        /\ PROBS \in Models
        /\ Start(ppl)
        /\ pc = "for have_trait"

\* With nothing observed and a well-formed pedigree no trait set is skipped
\* and no call raises.
SumNext ==
    \/ EnterGeneLoops
    \/ Evaluate
    \/ Normalize
    \/ Report

SumSpec == SumInit /\ [][SumNext]_vars

\* ------------------------------------------------ normalize on any table
\* n individuals without parents and without observation.
Roots(n) ==
    [i \in 1..n |-> [name |-> i, mother |-> None, father |-> None, trait |-> "None"]]

\* The totals a bucket of an arbitrary table holds: 0, 0.1, 0.3.
Totals == {Zero, Dec(1, 1), Dec(3, 1)}

\* main after its loops, with an arbitrary table of non-negative totals.
NormInit ==
    \E table \in [1..NormPeople ->
                    [gene : [0..2 -> Totals], trait : [BOOLEAN -> Totals]]] :
        /\ PROBS = ReferenceModel
        /\ NothingYet(Roots(NormPeople))
        /\ probabilities = table
        /\ ti = Len(powerset(1..NormPeople)) + 1
        /\ pc = "for have_trait"

NormNext ==
    \/ Normalize
    \/ Report

NormSpec == NormInit /\ [][NormNext]_vars

\* C7: normalize divides the trait distribution of every individual by the
\* trait distribution's own total: it sums to 1, with the ratios kept, when
\* that total is not zero, and is left as it is only when that total is zero,
\* whatever the gene-count total is.
C7_TraitByItsOwnTotal ==
    [][(pc = "for have_trait" /\ pc' = "print") =>
        \A person \in names :
            LET old == probabilities[person]
                new == probabilities'[person]
            IN  IF IsZero(TraitSum(old)) THEN new.trait = old.trait
                ELSE /\ REq(TraitSum(new), One)
                     /\ \A b \in BOOLEAN :
                            REq(new.trait[b], RDiv(old.trait[b], TraitSum(old)))]_vars

\* --------------------------------------------------- update on any hypothesis
UpdInit ==
    /\ PROBS = ReferenceModel
    /\ Start(Roots(UpdPeople))
    /\ pc = "update"

\* update(probabilities, one_gene, two_genes, have_trait, p) for any three
\* sets of names and p one of 0, 0.1.
UpdateAny ==
    /\ pc = "update"
    /\ nupdates < MaxUpdates
    /\ \E one_gene \in SUBSET names, two_genes \in SUBSET names,
          have_trait \in SUBSET names, q \in {Zero, Dec(1, 1)} :
        /\ p' = q
        /\ hyp' = [one_gene |-> one_gene, two_genes |-> two_genes,
                   have_trait |-> have_trait]
        /\ probabilities' = update(probabilities, one_gene, two_genes, have_trait, p')
        /\ total' = RAdd(total, p')
    /\ nupdates' = nupdates + 1
    /\ UNCHANGED <<PROBS, people, pc, ti, gi, gj, ncalls, evaluated, repeated,
                   printed, ahead, partial, inorder>>

UpdSpec == UpdInit /\ [][UpdateAny]_vars

\* The totals of both distributions of everybody are the sum of the p so far.
C9_Totals ==
    \A person \in names :
        /\ REq(GeneSum(probabilities[person]), total)
        /\ REq(TraitSum(probabilities[person]), total)

\* A call of update adds p to one gene bucket and to one trait bucket of
\* everybody, and leaves the other buckets as they were.
C9_OneBucketEach ==
    nupdates' = nupdates + 1 =>
        \A person \in names :
            \E k \in 0..2, b \in BOOLEAN :
                /\ \A j \in 0..2 :
                    REq(probabilities'[person].gene[j],
                        IF j = k THEN RAdd(probabilities[person].gene[j], p')
                        ELSE probabilities[person].gene[j])
                /\ \A c \in BOOLEAN :
                    REq(probabilities'[person].trait[c],
                        IF c = b THEN RAdd(probabilities[person].trait[c], p')
                        ELSE probabilities[person].trait[c])

\* C9: from the all-zero table, after any calls of update (any hypotheses,
\* one_gene and two_genes overlapping or not, any p >= 0) the three gene
\* buckets of every individual sum to the same as its two trait buckets,
\* namely to the sum of all p; each call adds p to exactly one gene bucket and
\* one trait bucket of every individual.
C9_UpdateKeepsTotalsEqual ==
    /\ []C9_Totals
    /\ [][C9_OneBucketEach]_vars

C9_Witness ==
    /\ pc = "update"
    /\ nupdates = 2
    /\ hyp.one_gene \cap hyp.two_genes # {}
    /\ ~IsZero(p)
    /\ ~REq(total, p)
    /\ \E person \in names : ~IsZero(probabilities[person].gene[2])
    /\ C9_Totals

\* ------------------------------------------------------ accumulation order
\* The position of the three loops of main.
Cursor == [ti |-> ti, gi |-> gi, gj |-> gj]

RECURSIVE SkipFailing(_, _)
\* The first trait set from index t on that main does not skip.
SkipFailing(ppl, t) ==
    IF t > Len(powerset(DOMAIN ppl)) THEN t
    ELSE IF fails_evidence(ppl, powerset(DOMAIN ppl)[t]) THEN SkipFailing(ppl, t + 1)
    ELSE t

\* The loops of main are over.
AtEnd(ppl, c) == c.ti > Len(powerset(DOMAIN ppl))

\* The position of the loops after the hypothesis at position c.
After(ppl, c) ==
    LET ps == DOMAIN ppl
    IN  IF c.gj < Len(powerset(ps \ powerset(ps)[c.gi]))
        THEN [c EXCEPT !.gj = @ + 1]
        ELSE IF c.gi < Len(powerset(ps))
        THEN [c EXCEPT !.gi = @ + 1, !.gj = 1]
        ELSE [ti |-> SkipFailing(ppl, c.ti + 1), gi |-> 1, gj |-> 1]

\* The hypothesis at position c.
HypOf(ppl, c) ==
    LET one_gene == powerset(DOMAIN ppl)[c.gi]
    IN  [one_gene   |-> one_gene,
         two_genes  |-> powerset(DOMAIN ppl \ one_gene)[c.gj],
         have_trait |-> powerset(DOMAIN ppl)[c.ti]]

RECURSIVE Later(_, _, _)
\* The position d hypotheses after position c.
Later(ppl, c, d) ==
    IF d = 0 \/ AtEnd(ppl, c) THEN c ELSE Later(ppl, After(ppl, c), d - 1)

\* Position a comes before position b.
Before(a, b) ==
    \/ a.ti < b.ti
    \/ a.ti = b.ti /\ a.gi < b.gi
    \/ a.ti = b.ti /\ a.gi = b.gi /\ a.gj < b.gj

RECURSIVE NextPending(_, _, _)
\* The first position from c on that is not in s.
NextPending(ppl, c, s) ==
    IF ~AtEnd(ppl, c) /\ c \in s THEN NextPending(ppl, After(ppl, c), s) ELSE c

RECURSIVE Replay(_, _, _, _)
\* The table after main has gone from position c to just before position to.
Replay(table, ppl, c, to) ==
    IF c = to THEN table
    ELSE LET h == HypOf(ppl, c)
         IN  Replay(update(table, h.one_gene, h.two_genes, h.have_trait,
                           joint_probability(ppl, h.one_gene, h.two_genes,
                                             h.have_trait)),
                    ppl, After(ppl, c), to)

\* The sum of two partial tables.
TableAdd(s, t) ==
    [person \in DOMAIN s |->
        [gene  |-> [k \in 0..2 |-> RAdd(s[person].gene[k], t[person].gene[k])],
         trait |-> [b \in BOOLEAN |-> RAdd(s[person].trait[b], t[person].trait[b])]]]

\* The pedigrees of the reordered accumulation: two parents, their traits
\* observed, and their child.
OrderInit ==
    \E ppl \in Pedigrees(3) :
        /\ WellFormed(ppl)
        /\ ~NoParents(ppl, 3)
        /\ ppl[1].trait # "None"
        /\ ppl[2].trait # "None"
        /\ PROBS = ReferenceModel
        /\ NothingYet(ppl)
        /\ probabilities = EmptyTable(DOMAIN ppl)
        /\ ti = SkipFailing(ppl, 1)
        /\ pc = "first part"

\* One of the pending hypotheses, the first one or one at most Window - 1
\* places behind it, is evaluated and accumulated; `inorder' follows in the
\* order of main.
ApplyAny ==
    /\ pc \in {"first part", "second part"}
    /\ \E d \in 0..(Window - 1) :
        LET c == Later(people, Cursor, d)
            h == HypOf(people, c)
            next == NextPending(people, Cursor, ahead \cup {c})
        IN  /\ ~AtEnd(people, c)
            /\ c \notin ahead
            /\ Called(h)
            /\ p' = joint_probability(people, h.one_gene, h.two_genes, h.have_trait)
            /\ probabilities' =
                   update(probabilities, h.one_gene, h.two_genes, h.have_trait, p')
            /\ ti' = next.ti
            /\ gi' = next.gi
            /\ gj' = next.gj
            /\ ahead' = {a \in ahead \cup {c} : ~Before(a, next)}
            /\ inorder' = Replay(inorder, people, Cursor, next)
    /\ nupdates' = nupdates + 1
    /\ total' = RAdd(total, p')
    /\ UNCHANGED <<PROBS, people, pc, printed, partial>>

\* The table so far is put aside as the first partial table; the rest of the
\* hypotheses go to a fresh table.
StartSecondPart ==
    /\ pc = "first part"
    /\ nupdates > 0
    /\ nupdates <= MaxFirstPart
    /\ partial' = probabilities
    /\ probabilities' = EmptyTable(names)
    /\ pc' = "second part"
    /\ UNCHANGED <<PROBS, people, ti, gi, gj, hyp, ncalls, nupdates, evaluated,
                   repeated, total, printed, p, ahead, inorder>>

\* All hypotheses are applied: the partial tables are summed.
SumParts ==
    /\ pc \in {"first part", "second part"}
    /\ AtEnd(people, Cursor)
    /\ probabilities' = TableAdd(partial, probabilities)
    /\ pc' = "summed"
    /\ UNCHANGED <<PROBS, people, ti, gi, gj, hyp, ncalls, nupdates, evaluated,
                   repeated, total, printed, p, ahead, inorder, partial>>

OrderNext ==
    \/ ApplyAny
    \/ StartSecondPart
    \/ SumParts

OrderSpec == OrderInit /\ [][OrderNext]_vars

SameTable(s, t) ==
    \A person \in DOMAIN s :
        /\ \A k \in 0..2 : REq(s[person].gene[k], t[person].gene[k])
        /\ \A b \in BOOLEAN : REq(s[person].trait[b], t[person].trait[b])

\* C10: update applied once per enumerated hypothesis in another order than
\* main's, or to two partial tables that are summed afterwards, gives the
\* table main gives, before and after normalize.
C10_OrderDoesNotMatter ==
    pc = "summed" =>
        /\ ncalls = NumHypotheses
        /\ evaluated = ConsistentCodes
        /\ ~repeated
        /\ SameTable(probabilities, inorder)
        /\ SameTable(normalize(probabilities), normalize(inorder))

C10_Witness ==
    /\ pc = "summed"
    /\ Cardinality(names) = 3
    /\ people[3].mother = 1
    /\ people[3].trait = "True"
    /\ hyp.one_gene # names
    /\ \E k \in 0..2 : ~IsZero(partial[1].gene[k])
    /\ SameTable(probabilities, inorder)

====
